---- MODULE Spec2Model ----
(***************************************************************************)
(* catsa-janga: a checkpoint store (restore / saveProgress over one JSON   *)
(* file) and its shutdown coordinator (setupProcessHandlers), modelled     *)
(* from src/src/index.ts on Node's single-threaded event loop.  Every      *)
(* action is one synchronous run of the loop: the code between two awaits. *)
(***************************************************************************)
EXTENDS Integers, Sequences, FiniteSets, TLC

(***************************************************************************)
(* JavaScript values.  A value is a node [t, s, kids]: t its type, s the   *)
(* text of a scalar, kids the entries [k, v] of an array (k = "") or of an *)
(* object (k the property name), in order.                                 *)
(***************************************************************************)
Scalar(t, s) == [t |-> t, s |-> s, kids |-> <<>>]

Entry(k, v) == [k |-> k, v |-> v]

Undefined == Scalar("undefined", "")

Null == Scalar("null", "")

Bool(s) == Scalar("boolean", s)

Num(s) == Scalar("number", s)

Str(s) == Scalar("string", s)

BigIntV(s) == Scalar("bigint", s)

\* A Date object; s is what its toJSON returns.
DateV(s) == Scalar("date", s)

Arr(vs) == [t |-> "array", s |-> "", kids |-> [n \in 1..Len(vs) |-> Entry("", vs[n])]]

Obj(es) == [t |-> "object", s |-> "", kids |-> es]

(***************************************************************************)
(* The text of a checkpoint file is a sequence of JSON tokens (white space *)
(* carries no meaning in JSON and is left out).                            *)
(***************************************************************************)
Tok(tt, s) == [tt |-> tt, s |-> s]

Punct(c) == Tok(c, "")

\* Numbers JSON cannot write: JSON.stringify renders them as null.
NonFinite == {"NaN", "Infinity", "-Infinity"}

\* Values JSON.stringify leaves out of an object and writes as null in an array.
IsOmitted(v) == v.t \in {"undefined", "function", "symbol"}

\* JSON.stringify throws a TypeError on a BigInt anywhere in the value.
RECURSIVE StringifyThrows(_)
StringifyThrows(v) ==
    \/ v.t = "bigint"
    \/ \E n \in 1..Len(v.kids) : StringifyThrows(v.kids[n].v)

RECURSIVE Serialize(_)
RECURSIVE SerializeElements(_, _)
RECURSIVE SerializeMembers(_, _)
\* The tokens JSON.stringify writes for a value that is not omitted.
Serialize(v) ==
    CASE v.t = "null" -> <<Tok("null", "")>>
      [] v.t = "boolean" -> <<Tok(v.s, "")>>
      [] v.t = "number" ->
            IF v.s \in NonFinite THEN <<Tok("null", "")>>
            ELSE IF v.s = "-0" THEN <<Tok("num", "0")>>
            ELSE <<Tok("num", v.s)>>
      [] v.t = "string" -> <<Tok("str", v.s)>>
      [] v.t = "date" -> <<Tok("str", v.s)>>
      [] v.t = "array" -> <<Punct("[")>> \o SerializeElements(v.kids, 1) \o <<Punct("]")>>
      [] v.t = "object" -> <<Punct("{")>> \o SerializeMembers(v.kids, FALSE) \o <<Punct("}")>>
      [] OTHER -> <<Tok("null", "")>>

SerializeElements(kids, n) ==
    IF n > Len(kids) THEN <<>>
    ELSE (IF n > 1 THEN <<Punct(",")>> ELSE <<>>)
         \o (IF IsOmitted(kids[n].v) THEN <<Tok("null", "")>> ELSE Serialize(kids[n].v))
         \o SerializeElements(kids, n + 1)

SerializeMembers(kids, wrote) ==
    IF kids = <<>> THEN <<>>
    ELSE IF IsOmitted(Head(kids).v) THEN SerializeMembers(Tail(kids), wrote)
    ELSE (IF wrote THEN <<Punct(",")>> ELSE <<>>)
         \o <<Tok("str", Head(kids).k), Punct(":")>>
         \o Serialize(Head(kids).v)
         \o SerializeMembers(Tail(kids), TRUE)

\* JSON.stringify(value, null, 2): a text, undefined (no text at all), or a throw.
Stringify(v) ==
    IF StringifyThrows(v) THEN [r |-> "throw", text |-> <<>>]
    ELSE IF IsOmitted(v) THEN [r |-> "undefined", text |-> <<>>]
    ELSE [r |-> "text", text |-> Serialize(v)]

ParseFail == [ok |-> FALSE, v |-> Undefined, next |-> 0]

RECURSIVE ParseValue(_, _)
RECURSIVE ParseElements(_, _, _)
RECURSIVE ParseMembers(_, _, _)
\* The value starting at token i: [ok, v, next], next the first token after it.
ParseValue(toks, i) ==
    IF i > Len(toks) THEN ParseFail
    ELSE LET tk == toks[i] IN
         CASE tk.tt = "null" -> [ok |-> TRUE, v |-> Null, next |-> i + 1]
           [] tk.tt \in {"true", "false"} -> [ok |-> TRUE, v |-> Bool(tk.tt), next |-> i + 1]
           [] tk.tt = "num" -> [ok |-> TRUE, v |-> Num(tk.s), next |-> i + 1]
           [] tk.tt = "str" -> [ok |-> TRUE, v |-> Str(tk.s), next |-> i + 1]
           [] tk.tt = "[" ->
                IF i + 1 <= Len(toks) /\ toks[i + 1].tt = "]"
                THEN [ok |-> TRUE, v |-> Arr(<<>>), next |-> i + 2]
                ELSE ParseElements(toks, i + 1, <<>>)
           [] tk.tt = "{" ->
                IF i + 1 <= Len(toks) /\ toks[i + 1].tt = "}"
                THEN [ok |-> TRUE, v |-> Obj(<<>>), next |-> i + 2]
                ELSE ParseMembers(toks, i + 1, <<>>)
           [] OTHER -> ParseFail

ParseElements(toks, i, acc) ==
    LET e == ParseValue(toks, i) IN
    IF ~e.ok \/ e.next > Len(toks) THEN ParseFail
    ELSE IF toks[e.next].tt = "]"
         THEN [ok |-> TRUE, v |-> Arr(Append(acc, e.v)), next |-> e.next + 1]
    ELSE IF toks[e.next].tt = ","
         THEN ParseElements(toks, e.next + 1, Append(acc, e.v))
    ELSE ParseFail

ParseMembers(toks, i, acc) ==
    IF i + 1 > Len(toks) \/ toks[i].tt # "str" \/ toks[i + 1].tt # ":" THEN ParseFail
    ELSE LET e == ParseValue(toks, i + 2) IN
         IF ~e.ok \/ e.next > Len(toks) THEN ParseFail
         ELSE IF toks[e.next].tt = "}"
              THEN [ok |-> TRUE, v |-> Obj(Append(acc, Entry(toks[i].s, e.v))), next |-> e.next + 1]
         ELSE IF toks[e.next].tt = ","
              THEN ParseMembers(toks, e.next + 1, Append(acc, Entry(toks[i].s, e.v)))
         ELSE ParseFail

\* JSON.parse(text): the value, or a SyntaxError (ok = FALSE) when the text is not
\* exactly one JSON value.
Parse(toks) ==
    LET e == ParseValue(toks, 1) IN
    IF e.ok /\ e.next = Len(toks) + 1 THEN [ok |-> TRUE, v |-> e.v]
    ELSE [ok |-> FALSE, v |-> Undefined]

(***************************************************************************)
(* Bounds of the model.                                                    *)
(***************************************************************************)
\* Store instances constructed in the process.
MaxStores == 2

\* Events the environment delivers (signals, uncaught errors, rejections).
MaxEvents == 2

\* Calls of restore and saveProgress made by the application.
MaxCalls == 2

Signals == {"SIGINT", "SIGTERM"}

CrashEvents == {"uncaughtException", "unhandledRejection"}

Events == Signals \cup CrashEvents

\* Events of the process that setupProcessHandlers does not mention.
OtherEvents == {"exit", "beforeExit", "SIGHUP"}

ProcessEvents == Events \cup OtherEvents

Paths == {"progress.json"}

\* What the snapshot provider does when it raises instead of returning.
ProviderThrows == Scalar("throws", "")

Progress1 == Obj(<<Entry("count", Num("1"))>>)

\* Progress as in the README's example (a Date), with a mean not yet defined.
Lossy == Obj(<<Entry("timestamp", DateV("2025-04-07T00:00:00.000Z")), Entry("avg", Num("NaN"))>>)

\* What a call of the snapshot provider (getData) can do: return the application's
\* progress at that moment, or raise.
Provided == {Progress1, Lossy, ProviderThrows}

Fallback == Obj(<<Entry("fallback", Bool("true"))>>)

\* options.initialData: optional.
InitialDataChoices == {Undefined, Fallback}

\* The content "{ this is not valid JSON }" of the corrupt-file test.
CorruptText == <<Punct("{"), Tok("junk", "this is not valid JSON"), Punct("}")>>

Absent == [exists |-> FALSE, text |-> <<>>, by |-> 0]

Present(text, by) == [exists |-> TRUE, text |-> text, by |-> by]

VARIABLES
    alive,          \* the process is running
    exitStub,       \* process.exit is replaced by a stub that throws (the tests)
    faulty,         \* the logger levels whose calls throw
    stores,         \* the constructed instances: [outputFile, initialData]
    listeners,      \* process listeners: event -> the instances, in registration order
    isShuttingDown, \* per instance: the flag of setupProcessHandlers
    trigger,        \* per instance: the event that set the flag ("" before)
    heard,          \* per instance: the events its listeners were called for
    file,           \* path -> [exists, text, by]; by: the save whose text it holds
    ops,            \* the calls of restore / saveProgress, finished or in flight
    hlog,           \* per instance: the entries its listeners logged, in order
    exits,          \* the calls of process.exit: [store, op, code]
    pending,        \* rejected promises nobody handles, not yet reported
    nEvents

vars ==
    <<alive, exitStub, faulty, stores, listeners, isShuttingDown, trigger, heard,
      file, ops, hlog, exits, pending, nEvents>>

StoreIds == 1..Len(stores)

OpIds == 1..Len(ops)

\* One call of logger.info or logger.error.
LogEntry(level, msg) == [level |-> level, msg |-> msg]

NewOp(kind, store, origin, code) ==
    [kind |-> kind, store |-> store, origin |-> origin, code |-> code, pc |-> "new",
     calls |-> 0, snap |-> Undefined, text |-> <<>>, failed |-> FALSE, resumed |-> FALSE,
     stat |-> "", read |-> "", got |-> <<>>, from |-> 0, result |-> Undefined,
     cause |-> "", data |-> Undefined, at |-> 0, log |-> <<>>]

\* The part of the state one synchronous run of handlers and continuations changes.
Machine ==
    [alive |-> alive, isShuttingDown |-> isShuttingDown, trigger |-> trigger,
     heard |-> heard,
     ops |-> ops, hlog |-> hlog, exits |-> exits, pending |-> pending]

Becomes(m) ==
    /\ alive' = m.alive
    /\ isShuttingDown' = m.isShuttingDown
    /\ trigger' = m.trigger
    /\ heard' = m.heard
    /\ ops' = m.ops
    /\ hlog' = m.hlog
    /\ exits' = m.exits
    /\ pending' = m.pending

\* The logger is called, by call op of restore / saveProgress or (op = 0) by a
\* listener of instance store.  The entries are kept per caller, in its order.
Logged(m, level, msg, store, op) ==
    IF op = 0 THEN [m EXCEPT !.hlog[store] = Append(@, LogEntry(level, msg))]
    ELSE [m EXCEPT !.ops[op].log = Append(@, LogEntry(level, msg))]

Init ==
    /\ alive = TRUE
    /\ exitStub \in BOOLEAN
    /\ faulty = {}
    /\ stores = <<>>
    /\ listeners = [e \in ProcessEvents |-> <<>>]
    /\ isShuttingDown = <<>>
    /\ trigger = <<>>
    /\ heard = <<>>
    /\ file \in [Paths -> {Absent, Present(Serialize(Progress1), 0), Present(CorruptText, 0)}]
    /\ ops = <<>>
    /\ hlog = <<>>
    /\ exits = <<>>
    /\ pending = 0
    /\ nEvents = 0

\* A constructor that takes the events over: the listeners registered before are
\* removed.
ConstructReplacing(path, initialData) ==
    /\ alive
    /\ Len(stores) < MaxStores
    /\ stores' = Append(stores, [outputFile |-> path, initialData |-> initialData])
    /\ isShuttingDown' = Append(isShuttingDown, FALSE)
    /\ trigger' = Append(trigger, "")
    /\ heard' = Append(heard, <<>>)
    /\ hlog' = Append(hlog, <<>>)
    /\ listeners' = [e \in ProcessEvents |->
                         IF e \in Events THEN <<Len(stores) + 1>> ELSE listeners[e]]
    /\ UNCHANGED <<alive, exitStub, faulty, file, ops, exits, pending, nEvents>>

\* new CatsaJanga(options): the fields, then setupProcessHandlers' four process.on.
Construct(path, initialData) ==
    /\ alive
    /\ Len(stores) < MaxStores
    /\ stores' = Append(stores, [outputFile |-> path, initialData |-> initialData])
    /\ isShuttingDown' = Append(isShuttingDown, FALSE)
    /\ trigger' = Append(trigger, "")
    /\ heard' = Append(heard, <<>>)
    /\ hlog' = Append(hlog, <<>>)
    /\ listeners' = [e \in ProcessEvents |->
                         IF e \in Events THEN Append(listeners[e], Len(stores) + 1)
                         ELSE listeners[e]]
    /\ UNCHANGED <<alive, exitStub, faulty, file, ops, exits, pending, nEvents>>

(***************************************************************************)
(* saveProgress                                                            *)
(***************************************************************************)
\* saveProgress without its try / catch: the failure rejects the promise.
SaveFailedUncaught(m, id, cause) ==
    [m EXCEPT !.ops[id].failed = TRUE, !.ops[id].cause = cause, !.ops[id].pc = "rejected"]

\* saveProgress' catch clause: the failure is logged and the promise resolves.  A
\* logger whose error() throws makes the catch clause itself throw.
SaveFailed(m, id, cause) ==
    LET m1 == [m EXCEPT !.ops[id].failed = TRUE, !.ops[id].cause = cause] IN
    IF "error" \in faulty THEN [m1 EXCEPT !.ops[id].pc = "rejected"]
    ELSE Logged([m1 EXCEPT !.ops[id].pc = "settled"], "error", "Error saving progress",
                m.ops[id].store, id)

\* Why saveProgress' try block fails before its write is under way ("" when it does
\* not): logger.info throws, getData throws, JSON.stringify throws, or it returns
\* undefined and fs.writeFile rejects its argument.
SyncFailure(v) ==
    IF "info" \in faulty THEN "logger"
    ELSE IF v = ProviderThrows THEN "provider"
    ELSE IF Stringify(v).r = "throw" THEN "stringify"
    ELSE IF Stringify(v).r = "undefined" THEN "argument"
    ELSE ""

\* saveProgress with getData() called before its try block: what the provider
\* throws rejects the promise, unlogged.
StartSaveUnguarded(m, i, origin, code, v) ==
    LET id == Len(m.ops) + 1
        cause == SyncFailure(v)
        o == [NewOp("save", i, origin, code) EXCEPT
                !.pc = "open",
                !.at = IF origin = "exit" THEN Len(m.hlog[i]) ELSE 0,
                !.calls = 1,
                !.snap = IF cause = "provider" THEN Undefined ELSE v,
                !.text = IF cause = "" THEN Stringify(v).text ELSE <<>>]
        m1 == [m EXCEPT !.ops = Append(@, o)]
    IN IF cause = "provider"
       THEN [m1 EXCEPT !.ops[id].failed = TRUE, !.ops[id].cause = cause,
                       !.ops[id].pc = "rejected"]
       ELSE IF cause = "" THEN Logged(m1, "info", "Saving progress", i, id)
       ELSE SaveFailed(m1, id, cause)

\* saveProgress up to its await: the info entry, getData() (which does v),
\* JSON.stringify and the call of fs.writeFile, whose open is then pending.
StartSave(m, i, origin, code, v) ==
    LET id == Len(m.ops) + 1
        cause == SyncFailure(v)
        o == [NewOp("save", i, origin, code) EXCEPT
                !.pc = "open",
                !.at = IF origin = "exit" THEN Len(m.hlog[i]) ELSE 0,
                !.calls = IF cause = "logger" THEN 0 ELSE 1,
                !.snap = IF cause \in {"logger", "provider"} THEN Undefined ELSE v,
                !.text = IF cause = "" THEN Stringify(v).text ELSE <<>>]
        m1 == [m EXCEPT !.ops = Append(@, o)]
        m2 == IF cause = "logger" THEN m1
              ELSE Logged(m1, "info", "Saving progress", i, id)
    IN IF cause = "" THEN m2 ELSE SaveFailed(m2, id, cause)

(***************************************************************************)
(* setupProcessHandlers                                                    *)
(***************************************************************************)
\* A handleExit that clears its flag when it is done (as in a finally clause).
ExitAndRearm(m, i, id, code) ==
    LET m1 == [m EXCEPT !.exits = Append(@, [store |-> i, op |-> id, code |-> code]),
                        !.isShuttingDown[i] = FALSE] IN
    IF exitStub THEN [m1 EXCEPT !.pending = @ + 1] ELSE [m1 EXCEPT !.alive = FALSE]

\* process.exit(exitCode).  The real one ends the process; the tests' stub throws,
\* which rejects handleExit's promise.
CallExit(m, i, id, code) ==
    LET m1 == [m EXCEPT !.exits = Append(@, [store |-> i, op |-> id, code |-> code])] IN
    IF exitStub THEN [m1 EXCEPT !.pending = @ + 1] ELSE [m1 EXCEPT !.alive = FALSE]

\* handleExit without its await: process.exit is called while the write is pending.
SaveNotAwaited(o) == TRUE

\* `await this.saveProgress()`: handleExit goes on once the save's promise resolved.
SaveAwaited(o) == o.pc = "settled"

\* What runs when a save's promise settles (or, for handleExit, as soon as its await
\* lets it go on): the caller gets its result; handleExit calls process.exit, or is
\* itself rejected by a rejected save.
Settle(m, id) ==
    LET o == m.ops[id]
        fin == IF o.pc = "settled" THEN "done" ELSE o.pc
    IN IF ~m.alive THEN m
       ELSE IF o.origin = "caller" \/ o.resumed THEN [m EXCEPT !.ops[id].pc = fin]
       ELSE IF o.pc = "rejected"
            THEN [m EXCEPT !.ops[id].resumed = TRUE, !.pending = @ + 1]
       ELSE IF SaveAwaited(o)
            THEN CallExit([m EXCEPT !.ops[id].resumed = TRUE, !.ops[id].pc = fin],
                          o.store, id, o.code)
       ELSE m

\* handleExit without its guard (as it was before the flag was introduced).
NeverShuttingDown(m, i) == FALSE

\* `if (isShuttingDown) return;`
AlreadyShuttingDown(m, i) == m.isShuttingDown[i]

\* handleExit with its info entry written before the guard is tested.
HandleExitLogsFirst(m, i, signal, exitCode, v) ==
    LET m0 == Logged(m, "info", signal, i, 0) IN
    IF AlreadyShuttingDown(m, i) THEN m0
    ELSE StartSave([m0 EXCEPT !.isShuttingDown[i] = TRUE], i, "exit", exitCode, v)

\* handleExit calling saveProgress before it logs the cause.
HandleExitSavesFirst(m, i, signal, exitCode, v) ==
    IF AlreadyShuttingDown(m, i) THEN m
    ELSE Logged(StartSave([m EXCEPT !.isShuttingDown[i] = TRUE], i, "exit", exitCode, v),
                "info", signal, i, 0)

\* handleExit(signal, exitCode) up to its await.
HandleExit(m, i, signal, exitCode, v) ==
    IF AlreadyShuttingDown(m, i) THEN m
    ELSE LET m1 == [m EXCEPT !.isShuttingDown[i] = TRUE] IN
         IF "info" \in faulty THEN [m1 EXCEPT !.pending = @ + 1]
         ELSE StartSave(Logged(m1, "info", signal, i, 0), i, "exit", exitCode, v)

\* Every listener passing 0.
ExitCodeZero(e) == 0

\* The exit code each registered listener passes to handleExit.
ExitCode(e) == IF e \in Signals THEN 0 ELSE 1

\* The description each registered listener passes to handleExit.
Description(e) ==
    CASE e = "SIGINT" -> "interrupted (SIGINT)"
      [] e = "SIGTERM" -> "terminated (SIGTERM)"
      [] e = "uncaughtException" -> "crashed with uncaught exception"
      [] e = "unhandledRejection" -> "crashed with unhandled rejection"

\* What the crash listeners log before they call handleExit.
CrashMessage(e) ==
    IF e = "uncaughtException" THEN "Uncaught exception" ELSE "Unhandled promise rejection"

\* The listener instance i registered for event e.  An exception thrown by a crash
\* listener (its logger.error) is one the runtime ends the process for.
Listener(m, i, e, v) ==
    LET r == IF e \in Signals THEN HandleExit(m, i, Description(e), ExitCode(e), v)
             ELSE IF "error" \in faulty THEN [m EXCEPT !.alive = FALSE]
             ELSE HandleExit(Logged(m, "error", CrashMessage(e), i, 0), i,
                             Description(e), ExitCode(e), v)
        h == [r EXCEPT !.heard[i] = Append(@, e)]
    IN IF ~m.alive THEN m
       ELSE IF ~m.isShuttingDown[i] /\ r.isShuttingDown[i] THEN [h EXCEPT !.trigger[i] = e]
       ELSE h

RECURSIVE RunListeners(_, _, _, _)
\* process.emit: the listeners run one after the other, each to its first await.
RunListeners(m, ls, e, v) ==
    IF ls = <<>> THEN m ELSE RunListeners(Listener(m, Head(ls), e, v), Tail(ls), e, v)

RECURSIVE SettleFrom(_, _)
\* The continuations that are ready when the listeners have returned, oldest first.
SettleFrom(m, id) ==
    IF id > Len(m.ops) THEN m ELSE SettleFrom(Settle(m, id), id + 1)

\* Event e is emitted while the provider does v.
Emit(m, e, v) == SettleFrom(RunListeners(m, listeners[e], e, v), Len(m.ops) + 1)

\* The environment delivers a signal, an uncaught exception or an unhandled rejection.
Deliver(e, v) ==
    /\ alive
    /\ Len(stores) >= 1
    /\ nEvents < MaxEvents
    /\ nEvents' = nEvents + 1
    /\ Becomes(Emit(Machine, e, v))
    /\ UNCHANGED <<exitStub, faulty, stores, listeners, file>>

\* The runtime reports a rejected promise of the program that nobody handles.
ReportRejection(v) ==
    /\ alive
    /\ pending > 0
    /\ Becomes(Emit([Machine EXCEPT !.pending = @ - 1], "unhandledRejection", v))
    /\ UNCHANGED <<exitStub, faulty, stores, listeners, file, nEvents>>

CallerOps == {id \in OpIds : ops[id].origin \in {"caller", "factory"}}

\* The application calls saveProgress() while its provider does v.
CallSave(i, v) ==
    /\ alive
    /\ Cardinality(CallerOps) < MaxCalls
    /\ Becomes(Settle(StartSave(Machine, i, "caller", 0, v), Len(ops) + 1))
    /\ UNCHANGED <<exitStub, faulty, stores, listeners, file, nEvents>>

\* fs.writeFile opens the file with flag 'w': created if absent, truncated if not.
WriteOpen(id, ok) ==
    /\ alive
    /\ ops[id].kind = "save" /\ ops[id].pc = "open"
    /\ IF ok
       THEN /\ file' = [file EXCEPT ![stores[ops[id].store].outputFile] = Present(<<>>, 0)]
            /\ ops' = [ops EXCEPT ![id].pc = "flush"]
            /\ UNCHANGED <<alive, isShuttingDown, trigger, heard, hlog, exits, pending>>
       ELSE /\ Becomes(Settle(SaveFailed(Machine, id, "write"), id))
            /\ UNCHANGED file
    /\ UNCHANGED <<exitStub, faulty, stores, listeners, nEvents>>

\* fs.writeFile as if it opened the file with flag 'a'.
Appended(old, text, n) == old \o SubSeq(text, 1, n)

\* What the file holds after n tokens were written from its start.
Overwritten(old, text, n) == SubSeq(text, 1, n) \o SubSeq(old, n + 1, Len(old))

\* Where a write of the text can stop: at its end (success), or short of it.
Cuts(text) == {0, Len(text)}

\* fs.writeFile writes the text from the start of the file and closes it; the write
\* fails after n tokens when n is not all of them.
WriteFlush(id, n) ==
    LET path == stores[ops[id].store].outputFile
        now == Overwritten(file[path].text, ops[id].text, n)
        whole == n = Len(ops[id].text)
    IN /\ alive
       /\ ops[id].kind = "save" /\ ops[id].pc = "flush"
       /\ file' = [file EXCEPT ![path] =
                      Present(now, IF whole /\ now = ops[id].text THEN id ELSE 0)]
       /\ IF whole
          THEN Becomes(Settle([Machine EXCEPT !.ops[id].pc = "settled"], id))
          ELSE Becomes(Settle(SaveFailed(Machine, id, "write"), id))
       /\ UNCHANGED <<exitStub, faulty, stores, listeners, nEvents>>

(***************************************************************************)
(* restore                                                                 *)
(***************************************************************************)
\* The application calls restore(): fs.stat is called, and is pending.
CallRestore(i) ==
    /\ alive
    /\ Cardinality(CallerOps) < MaxCalls
    /\ ops' = Append(ops, [NewOp("restore", i, "caller", 0) EXCEPT !.pc = "stat"])
    /\ UNCHANGED <<alive, exitStub, faulty, stores, listeners, isShuttingDown, trigger,
                   heard, file, hlog, exits, pending, nEvents>>

\* The application calls CatsaJanga.createWithRestore(options): the instance is
\* constructed and its restore is called, whose fs.stat is pending.
CreateWithRestore(path, initialData) ==
    /\ alive
    /\ Len(stores) < MaxStores
    /\ Cardinality(CallerOps) < MaxCalls
    /\ stores' = Append(stores, [outputFile |-> path, initialData |-> initialData])
    /\ isShuttingDown' = Append(isShuttingDown, FALSE)
    /\ trigger' = Append(trigger, "")
    /\ heard' = Append(heard, <<>>)
    /\ hlog' = Append(hlog, <<>>)
    /\ listeners' = [e \in ProcessEvents |->
                         IF e \in Events THEN Append(listeners[e], Len(stores) + 1)
                         ELSE listeners[e]]
    /\ ops' = Append(ops, [NewOp("restore", Len(stores) + 1, "factory", 0) EXCEPT
                               !.pc = "stat"])
    /\ UNCHANGED <<alive, exitStub, faulty, file, exits, pending, nEvents>>

\* What fs.stat can answer for a file: its stats ("ok"), that there is none
\* ("ENOENT"), or that the path cannot be examined ("EACCES").
StatAnswers(f) == (IF f.exists THEN {"ok"} ELSE {"ENOENT"}) \cup {"EACCES"}

\* What fs.readFile can answer: the text ("ok"), or an error.
ReadAnswers(f) == IF f.exists THEN {"ok", "EIO"} ELSE {"ENOENT"}

\* restore without its existence check.
AlwaysExists(answer) == TRUE

\* `!!(await fs.stat(this.outputFile).catch(() => false))`
FileExists(answer) == answer = "ok"

\* A createWithRestore that hands out the initial data whatever was restored.
AlwaysInitialData(restoredData, initialData) == initialData

\* createWithRestore: `restoredData !== undefined ? restoredData : options.initialData`
CreatedData(restoredData, initialData) ==
    IF restoredData # Undefined THEN restoredData ELSE initialData

\* restore returns: the promise resolves with the value.  When createWithRestore
\* awaits it, it goes on and returns { data, saver }.
Returned(m, id, v) ==
    LET m1 == [m EXCEPT !.ops[id].pc = "done", !.ops[id].result = v] IN
    IF m.ops[id].origin = "factory"
    THEN [m1 EXCEPT !.ops[id].resumed = TRUE,
                    !.ops[id].data = CreatedData(v, stores[m.ops[id].store].initialData)]
    ELSE m1

\* The outer catch clause of restore.
OuterCatch(m, id) ==
    IF "error" \in faulty THEN [m EXCEPT !.ops[id].pc = "rejected"]
    ELSE Returned(Logged(m, "error", "Error checking file existence", m.ops[id].store, id),
                  id, stores[m.ops[id].store].initialData)

\* restore without catch clauses: the failure rejects the promise.
RestoreUncaught(m, id) == [m EXCEPT !.ops[id].pc = "rejected"]

\* An inner catch clause that swallows the failure without a word.
InnerCatchSilent(m, id) == Returned(m, id, stores[m.ops[id].store].initialData)

\* The inner catch clause of restore; what it throws, the outer one catches.
InnerCatch(m, id) ==
    IF "error" \in faulty THEN OuterCatch(m, id)
    ELSE Returned(Logged(m, "error", "Error restoring progress", m.ops[id].store, id),
                  id, stores[m.ops[id].store].initialData)

\* restore returning the fallback where it should return what it parsed.
RestoredDiscarded(m, id, v) ==
    Returned(Logged(m, "info", "Progress data successfully restored", m.ops[id].store, id),
             id, stores[m.ops[id].store].initialData)

\* restore returning what it parsed without a word.
RestoredSilent(m, id, v) == Returned(m, id, v)

\* The end of restore's inner try block: the info entry, `return restoredData`.
Restored(m, id, v) ==
    IF "info" \in faulty THEN InnerCatch(m, id)
    ELSE Returned(Logged(m, "info", "Progress data successfully restored",
                         m.ops[id].store, id),
                  id, v)

\* fs.stat settles; restore returns initialData, or calls fs.readFile.
StatDone(id, answer) ==
    /\ alive
    /\ ops[id].kind = "restore" /\ ops[id].pc = "stat"
    /\ answer \in StatAnswers(file[stores[ops[id].store].outputFile])
    /\ LET m == [Machine EXCEPT !.ops[id].stat = answer] IN
       IF FileExists(answer) THEN Becomes([m EXCEPT !.ops[id].pc = "read"])
       ELSE Becomes(Returned(m, id, stores[ops[id].store].initialData))
    /\ UNCHANGED <<exitStub, faulty, stores, listeners, file, nEvents>>

\* A restore that removes a checkpoint it cannot use.
ReadDoneDiscarding(id, answer) ==
    LET path == stores[ops[id].store].outputFile
        f == file[path]
        m == [Machine EXCEPT !.ops[id].read = answer,
                             !.ops[id].got = IF answer = "ok" THEN f.text ELSE <<>>,
                             !.ops[id].from = IF answer = "ok" THEN f.by ELSE 0]
    IN /\ alive
       /\ ops[id].kind = "restore" /\ ops[id].pc = "read"
       /\ answer \in ReadAnswers(f)
       /\ IF answer = "ok" /\ Parse(f.text).ok
          THEN Becomes(Restored(m, id, Parse(f.text).v)) /\ UNCHANGED file
          ELSE Becomes(InnerCatch(m, id)) /\ file' = [file EXCEPT ![path] = Absent]
       /\ UNCHANGED <<exitStub, faulty, stores, listeners, nEvents>>

\* fs.readFile settles, with the file's text or with an error; JSON.parse, then the
\* info entry and the parsed value, or the inner catch clause.
ReadDone(id, answer) ==
    LET f == file[stores[ops[id].store].outputFile]
        m == [Machine EXCEPT !.ops[id].read = answer,
                             !.ops[id].got = IF answer = "ok" THEN f.text ELSE <<>>,
                             !.ops[id].from = IF answer = "ok" THEN f.by ELSE 0]
    IN /\ alive
       /\ ops[id].kind = "restore" /\ ops[id].pc = "read"
       /\ answer \in ReadAnswers(f)
       /\ IF answer = "ok" /\ Parse(f.text).ok
          THEN Becomes(Restored(m, id, Parse(f.text).v))
          ELSE Becomes(InnerCatch(m, id))
       /\ UNCHANGED <<exitStub, faulty, stores, listeners, file, nEvents>>

\* The application's use of the store.
StoreNext ==
    \/ \E p \in Paths, d \in InitialDataChoices : Construct(p, d)
    \/ \E i \in StoreIds, v \in Provided : CallSave(i, v)
    \/ \E id \in OpIds, ok \in BOOLEAN : WriteOpen(id, ok)
    \/ \E id \in OpIds : \E n \in Cuts(ops[id].text) : WriteFlush(id, n)
    \/ \E i \in StoreIds : CallRestore(i)
    \/ \E id \in OpIds, a \in {"ok", "ENOENT", "EACCES"} : StatDone(id, a)
    \/ \E id \in OpIds, a \in {"ok", "EIO", "ENOENT"} : ReadDone(id, a)

\* The shutdown coordinator at work.
ShutdownNext ==
    \/ \E p \in Paths, d \in InitialDataChoices : Construct(p, d)
    \/ \E e \in Events, v \in Provided : Deliver(e, v)
    \/ \E v \in Provided : ReportRejection(v)
    \/ \E id \in OpIds, ok \in BOOLEAN : WriteOpen(id, ok)
    \/ \E id \in OpIds : \E n \in Cuts(ops[id].text) : WriteFlush(id, n)

\* The application's use of the store, createWithRestore included.
FactoryNext ==
    \/ \E p \in Paths, d \in InitialDataChoices : CreateWithRestore(p, d)
    \/ StoreNext

Next == FactoryNext \/ ShutdownNext

Spec == Init /\ [][Next]_vars

\* No operation of the store calls process.exit, so one kind of exit is enough here.
StoreInit == Init /\ exitStub = FALSE

StoreSpec == StoreInit /\ [][StoreNext]_vars

ShutdownSpec == Init /\ [][ShutdownNext]_vars

FactorySpec == StoreInit /\ [][FactoryNext]_vars

\* Every pending step of a write settles in the end, one way or the other.
WritesSettle ==
    /\ WF_vars(\E id \in OpIds, ok \in BOOLEAN : WriteOpen(id, ok))
    /\ WF_vars(\E id \in OpIds : \E n \in Cuts(ops[id].text) : WriteFlush(id, n))

FairShutdownSpec == ShutdownSpec /\ WritesSettle

\* A process in which one instance has been constructed, on a checkpoint that is
\* absent, valid or corrupt, with a logger whose throwing levels are one of fs.
Running(fs) ==
    /\ alive = TRUE
    /\ faulty \in fs
    /\ \E d \in InitialDataChoices :
          stores = <<[outputFile |-> "progress.json", initialData |-> d]>>
    /\ listeners = [e \in ProcessEvents |-> IF e \in Events THEN <<1>> ELSE <<>>]
    /\ isShuttingDown = <<FALSE>>
    /\ trigger = <<"">>
    /\ heard = << <<>> >>
    /\ file \in [Paths -> {Absent, Present(Serialize(Progress1), 0), Present(CorruptText, 0)}]
    /\ ops = <<>>
    /\ hlog = << <<>> >>
    /\ exits = <<>>
    /\ pending = 0
    /\ nEvents = 0

\* Everything that happens to a constructed instance: the application's calls,
\* the events, and the file operations settling.
ProcessNext ==
    \/ \E i \in StoreIds, v \in Provided : CallSave(i, v)
    \/ \E i \in StoreIds : CallRestore(i)
    \/ \E e \in Events, v \in Provided : Deliver(e, v)
    \/ \E v \in Provided : ReportRejection(v)
    \/ \E id \in OpIds, ok \in BOOLEAN : WriteOpen(id, ok)
    \/ \E id \in OpIds : \E n \in Cuts(ops[id].text) : WriteFlush(id, n)
    \/ \E id \in OpIds, a \in {"ok", "ENOENT", "EACCES"} : StatDone(id, a)
    \/ \E id \in OpIds, a \in {"ok", "EIO", "ENOENT"} : ReadDone(id, a)

\* The application saving while events arrive: both kinds of save, and their writes.
OverlapNext ==
    \/ \E i \in StoreIds, v \in Provided : CallSave(i, v)
    \/ \E e \in Events, v \in Provided : Deliver(e, v)
    \/ \E v \in Provided : ReportRejection(v)
    \/ \E id \in OpIds, ok \in BOOLEAN : WriteOpen(id, ok)
    \/ \E id \in OpIds : \E n \in Cuts(ops[id].text) : WriteFlush(id, n)

OverlapInit == Running({{}}) /\ exitStub \in BOOLEAN

OverlapSpec == OverlapInit /\ [][OverlapNext]_vars

\* A process in which two instances have been constructed, each on its own
\* checkpoint file (as with the README's two examples).
TwoInstancesInit ==
    /\ alive = TRUE
    /\ exitStub = FALSE
    /\ faulty = {}
    /\ stores = <<[outputFile |-> "progress.json", initialData |-> Undefined],
                  [outputFile |-> "ocr-progress.json", initialData |-> Undefined]>>
    /\ listeners = [e \in ProcessEvents |-> IF e \in Events THEN <<1, 2>> ELSE <<>>]
    /\ isShuttingDown = <<FALSE, FALSE>>
    /\ trigger = <<"", "">>
    /\ heard = << <<>>, <<>> >>
    /\ file \in [{"progress.json", "ocr-progress.json"} ->
                     {Absent, Present(Serialize(Progress1), 0)}]
    /\ ops = <<>>
    /\ hlog = << <<>>, <<>> >>
    /\ exits = <<>>
    /\ pending = 0
    /\ nEvents = 0

\* Events arriving, and the writes of the shutdown saves settling.
TwoInstancesNext ==
    \/ \E e \in Events, v \in Provided : Deliver(e, v)
    \/ \E id \in OpIds, ok \in BOOLEAN : WriteOpen(id, ok)
    \/ \E id \in OpIds : \E n \in Cuts(ops[id].text) : WriteFlush(id, n)

TwoInstancesSpec == TwoInstancesInit /\ [][TwoInstancesNext]_vars

\* One constructed instance in use, from restore at start to exit, with the logger
\* and process.exit as they should be.
LifecycleInit == Running({{}}) /\ exitStub = FALSE

\* Everything but the report of rejections, of which there are none here.
LifecycleNext ==
    \/ \E i \in StoreIds, v \in Provided : CallSave(i, v)
    \/ \E i \in StoreIds : CallRestore(i)
    \/ \E e \in Events, v \in Provided : Deliver(e, v)
    \/ \E id \in OpIds, ok \in BOOLEAN : WriteOpen(id, ok)
    \/ \E id \in OpIds : \E n \in Cuts(ops[id].text) : WriteFlush(id, n)
    \/ \E id \in OpIds, a \in {"ok", "ENOENT", "EACCES"} : StatDone(id, a)
    \/ \E id \in OpIds, a \in {"ok", "EIO", "ENOENT"} : ReadDone(id, a)

LifecycleSpec == LifecycleInit /\ [][LifecycleNext]_vars

\* The same process with a logger that does not honour its contract: calls of
\* info, of error, or of both throw.
FaultyLoggerInit == Running((SUBSET {"info", "error"}) \ {{}}) /\ exitStub = FALSE

FaultyLoggerSpec == FaultyLoggerInit /\ [][ProcessNext]_vars

(***************************************************************************)
(* The shutdown coordinator's properties.                                  *)
(***************************************************************************)
\* The saves instance i's handleExit started.
ExitSaves(i) == {id \in OpIds : ops[id].origin = "exit" /\ ops[id].store = i}

\* The calls of process.exit instance i's handleExit made.
ExitCalls(i) == {n \in 1..Len(exits) : exits[n].store = i}

InFlight(id) == ops[id].pc \in {"open", "flush"}

\* C1: whatever events an instance's listeners were called for, in any number and
\* order, also while its shutdown save is in flight, its handlers call saveProgress
\* at most once and process.exit at most once; from the first event on there is
\* exactly one such save, and once that save has completed exactly one exit call.
C1_OneSaveOneExit ==
    \A i \in StoreIds :
        /\ Cardinality(ExitSaves(i)) = (IF heard[i] = <<>> THEN 0 ELSE 1)
        /\ Cardinality(ExitCalls(i)) <= 1
        /\ \A id \in ExitSaves(i) :
              /\ ops[id].kind = "save"
              /\ ops[id].pc = "done" <=> Cardinality(ExitCalls(i)) = 1

\* C1's case: a second event arrived while the shutdown save was still in flight.
C1_Witness ==
    \E i \in StoreIds :
        /\ Len(heard[i]) >= 2
        /\ \E id \in ExitSaves(i) : InFlight(id)

\* C2: the status passed to process.exit is 0 when the event that set the flag was
\* SIGINT or SIGTERM and 1 when it was an uncaught exception or an unhandled
\* rejection, whatever events came later.
C2_ExitStatus ==
    \A n \in 1..Len(exits) :
        /\ trigger[exits[n].store] = Head(heard[exits[n].store])
        /\ exits[n].code = (IF trigger[exits[n].store] \in Signals THEN 0 ELSE 1)

\* C2's case: exit with 1 after a crash, though a signal came later.
C2_Witness ==
    \E n \in 1..Len(exits) :
        LET h == heard[exits[n].store] IN
        /\ exits[n].code = 1
        /\ Len(h) >= 2 /\ h[1] \in CrashEvents /\ h[2] \in Signals

\* C3: process.exit is called only once the save handleExit started has completed:
\* it is no longer in flight, and when it failed its failure was logged.
C3_ExitAfterSave ==
    \A n \in 1..Len(exits) :
        LET o == ops[exits[n].op] IN
        /\ exits[n].op \in ExitSaves(exits[n].store)
        /\ o.pc = "done"
        /\ o.failed => \E k \in 1..Len(o.log) : o.log[k].level = "error"
        /\ ~o.failed => o.text # <<>>

\* C3's case: exit after a write that failed, the failure logged.
C3_Witness ==
    \E n \in 1..Len(exits) :
        LET o == ops[exits[n].op] IN
        o.failed /\ o.text # <<>> /\ o.pc = "done" /\ Len(o.log) = 2

\* C4: once an instance is shutting down, process.exit is eventually called by it
\* (unless another instance's exit call ended the process first), whether the
\* write of its save succeeds or fails, provided pending writes settle.
C4_ExitEventually ==
    \A i \in 1..MaxStores :
        (i \in StoreIds /\ isShuttingDown[i]) ~> (ExitCalls(i) # {} \/ ~alive)

\* C4's case: the real process.exit was called after the shutdown save's write failed.
C4_Witness ==
    \E n \in 1..Len(exits) :
        /\ ops[exits[n].op].failed /\ ops[exits[n].op].text # <<>>
        /\ ~exitStub /\ ~alive

(***************************************************************************)
(* The checkpoint store's properties.                                      *)
(***************************************************************************)
RestoreOps == {id \in OpIds : ops[id].kind = "restore"}

SaveOps == {id \in OpIds : ops[id].kind = "save"}

\* The entries of a level a call logged.
Entries(o, level) == {k \in 1..Len(o.log) : o.log[k].level = level}

InitialDataOf(o) == stores[o.store].initialData

\* C5: restore never raises, whatever the state of the file (absent, valid, corrupt,
\* unreadable, not examinable); what it returns is what the file's content
\* deserializes to, or the configured initial data (undefined when there is none).
C5_RestoreNeverRaises ==
    \A id \in RestoreOps :
        LET o == ops[id] IN
        /\ o.pc \in {"stat", "read", "done"}
        /\ o.pc = "done" =>
              \/ o.result = InitialDataOf(o)
              \/ o.read = "ok" /\ Parse(o.got).ok /\ o.result = Parse(o.got).v

\* C5's case: the file exists and cannot be read; restore returned the fallback.
C5_Witness ==
    \E id \in RestoreOps :
        ops[id].pc = "done" /\ ops[id].read = "EIO" /\ ops[id].result = Fallback

\* A save whose call of fs.writeFile got under way and failed.
WriteFailed(o) == o.kind = "save" /\ o.failed /\ o.text # <<>>

\* C6: saveProgress never raises; when its write fails the failure is caught, one
\* error entry is logged, and the call resolves as any other (with nothing).
C6_SaveNeverRaises ==
    \A id \in SaveOps :
        LET o == ops[id] IN
        /\ o.pc \in {"open", "flush", "done"}
        /\ o.result = Undefined
        /\ WriteFailed(o) => o.pc = "done" /\ Cardinality(Entries(o, "error")) = 1

\* C6's case: the application's save, whose write failed after the file was opened.
C6_Witness ==
    \E id \in SaveOps :
        /\ WriteFailed(ops[id]) /\ ops[id].origin = "caller" /\ ops[id].pc = "done"
        /\ file[stores[ops[id].store].outputFile] = Present(<<>>, 0)

RECURSIVE JsonExact(_)
\* The values JSON holds as they are: null, booleans, finite numbers, strings, and
\* the arrays and plain objects made of such values.
JsonExact(v) ==
    CASE v.t \in {"null", "boolean", "string"} -> TRUE
      [] v.t = "number" -> v.s \notin NonFinite \cup {"-0"}
      [] v.t \in {"array", "object"} -> \A n \in 1..Len(v.kids) : JsonExact(v.kids[n].v)
      [] OTHER -> FALSE

\* A restore that read the file while it held exactly what save `from` wrote.
ReadBack(o) == o.kind = "restore" /\ o.pc = "done" /\ o.read = "ok" /\ o.from # 0

\* C7 as stated: a restore that reads what a successful save wrote returns a value
\* equal to the snapshot the provider returned to that save, whatever the value.
C7_RoundTripAny ==
    \A id \in RestoreOps : ReadBack(ops[id]) => ops[id].result = ops[ops[id].from].snap

\* C7, amended: the same, for the snapshots JSON holds as they are.
C7_RoundTripExact ==
    \A id \in RestoreOps :
        ReadBack(ops[id]) /\ JsonExact(ops[ops[id].from].snap)
            => ops[id].result = ops[ops[id].from].snap

\* C7's case: a store without initial data restored the progress another one saved.
C7_Witness ==
    \E id \in RestoreOps :
        /\ ReadBack(ops[id]) /\ ops[id].result = Progress1
        /\ ops[ops[id].from].store # ops[id].store
        /\ InitialDataOf(ops[id]) = Undefined

\* C8: restore against a path with no file returns the configured initial data
\* (undefined when there is none) and logs no error: nothing at all.
C8_ColdStart ==
    \A id \in RestoreOps :
        ops[id].pc \in {"read", "done"} /\ ops[id].stat = "ENOENT"
            => /\ ops[id].pc = "done"
               /\ ops[id].result = InitialDataOf(ops[id])
               /\ ops[id].log = <<>>

\* C8's case: no file, initial data configured.
C8_Witness ==
    \E id \in RestoreOps :
        ops[id].pc = "done" /\ ops[id].stat = "ENOENT" /\ ops[id].result = Fallback

\* C9: restore against a file whose content does not deserialize returns the
\* configured initial data, logs exactly one error entry and no info entry, and
\* does not raise.
C9_CorruptFile ==
    \A id \in RestoreOps :
        LET o == ops[id] IN
        o.pc # "read" /\ o.read = "ok" /\ ~Parse(o.got).ok
            => /\ o.pc = "done"
               /\ o.result = InitialDataOf(o)
               /\ Cardinality(Entries(o, "error")) = 1
               /\ Entries(o, "info") = {}

\* C9's case: the corrupt file of the tests, initial data configured.
C9_Witness ==
    \E id \in RestoreOps :
        ops[id].pc = "done" /\ ops[id].got = CorruptText /\ ops[id].result = Fallback

\* C10: when the existence check fails for an environmental reason, restore logs
\* an error entry and returns the configured initial data.
C10_StatFailureLogged ==
    \A id \in RestoreOps :
        ops[id].pc = "done" /\ ops[id].stat = "EACCES"
            => /\ ops[id].result = InitialDataOf(ops[id])
               /\ Entries(ops[id], "error") # {}

\* C11: restore against a file that is there and whose content deserializes returns
\* the deserialized value, not the initial data, and logs exactly one info entry
\* ('Progress data successfully restored') and no error entry.
C11_RestoreSucceeds ==
    \A id \in RestoreOps :
        LET o == ops[id] IN
        o.pc # "read" /\ o.read = "ok" /\ Parse(o.got).ok
            => /\ o.pc = "done"
               /\ o.result = Parse(o.got).v
               /\ o.log = <<LogEntry("info", "Progress data successfully restored")>>

\* C11's case: initial data is configured, and the file's progress is returned instead.
C11_Witness ==
    \E id \in RestoreOps :
        /\ ops[id].pc = "done" /\ ops[id].read = "ok"
        /\ InitialDataOf(ops[id]) = Fallback /\ ops[id].result = Progress1
        /\ Len(ops[id].log) = 1

\* A save during which the snapshot provider raised.
ProviderRaised(o) == o.kind = "save" /\ o.cause = "provider"

\* C12: a save during which getData raises logs the error (one error entry), does
\* not raise (it resolves, with nothing), and leaves the checkpoint file with
\* exactly the contents it had before the call.
C12_ProviderRaises ==
    [][\A id \in 1..Len(ops') :
          id > Len(ops) /\ ProviderRaised(ops'[id])
              => /\ file' = file
                 /\ ops'[id].pc = "done" /\ ops'[id].result = Undefined
                 /\ Cardinality(Entries(ops'[id], "error")) = 1]_vars

\* C12's case: the provider raised in a save on a path whose file held progress,
\* which it still holds.
C12_Witness ==
    \E id \in SaveOps :
        /\ ProviderRaised(ops[id]) /\ ops[id].pc = "done"
        /\ file[stores[ops[id].store].outputFile].text = Serialize(Progress1)

\* C13: no operation raises past its own boundary, whatever collaborator fails in
\* it, a logger call included: no call of restore or saveProgress is rejected, no
\* listener throws (which ends the process without process.exit being called) and
\* no promise of handleExit is rejected.
C13_NothingRaises ==
    /\ \A id \in OpIds : ops[id].pc # "rejected"
    /\ pending = 0
    /\ ~alive => exits # <<>>

\* C14: constructing an instance registers exactly one new listener, its own, after
\* those already there, for each of SIGINT, SIGTERM, uncaughtException and
\* unhandledRejection, and none for any other event; nothing else changes the
\* listeners, so N constructions leave N listeners per event.
C14_OneHandlerEach ==
    [][/\ Len(stores') = Len(stores) + 1 =>
             \A e \in ProcessEvents :
                 listeners'[e] = IF e \in Events THEN Append(listeners[e], Len(stores'))
                                 ELSE listeners[e]
       /\ stores' = stores => listeners' = listeners
       /\ \A e \in ProcessEvents :
             Len(listeners'[e]) = IF e \in Events THEN Len(stores') ELSE 0]_vars

\* C14's case: a second instance was constructed, after the first had begun to
\* shut down; both are registered for each event.
C14_Witness ==
    /\ Len(stores) = 2 /\ isShuttingDown[1]
    /\ \A e \in Events : listeners[e] = <<1, 2>>

\* The calls of createWithRestore (each with the restore it awaits).
FactoryOps == {id \in OpIds : ops[id].origin = "factory"}

\* C15: createWithRestore does what constructing an instance and calling restore
\* once on it does.  Its instance is the one it constructed; its data is what that
\* restore returned, which is what the file's content deserializes to or the
\* initial data; and a plain restore that got the same answers from the file system,
\* on an instance with the same initial data, returned and logged the same.
C15_CreateWithRestore ==
    \A id \in FactoryOps :
        LET o == ops[id] IN
        /\ o.kind = "restore" /\ o.store \in StoreIds
        /\ \A id2 \in FactoryOps : ops[id2].store = o.store => id2 = id
        /\ o.pc \in {"stat", "read", "done"}
        /\ o.pc = "done" =>
              /\ o.resumed /\ o.data = o.result
              /\ \/ o.data = InitialDataOf(o)
                 \/ o.read = "ok" /\ Parse(o.got).ok /\ o.data = Parse(o.got).v
              /\ \A id2 \in RestoreOps \ FactoryOps :
                    LET p == ops[id2] IN
                    /\ p.pc = "done" /\ InitialDataOf(p) = InitialDataOf(o)
                    /\ p.stat = o.stat /\ p.read = o.read /\ p.got = o.got
                    => p.result = o.data /\ p.log = o.log

\* C15's case: initial data is configured and createWithRestore handed out the
\* progress found in the file, as did a restore called on the instance afterwards.
C15_Witness ==
    \E id \in FactoryOps : \E id2 \in RestoreOps \ FactoryOps :
        /\ ops[id].pc = "done" /\ ops[id].data = Progress1
        /\ InitialDataOf(ops[id]) = Fallback
        /\ ops[id2].store = ops[id].store /\ ops[id2].pc = "done"
        /\ ops[id2].result = Progress1

\* The write of save id completes, successfully, in this step.
Completes(id) == ops[id].pc = "flush" /\ ops'[id].pc = "done" /\ ~ops'[id].failed

PathOf(id) == stores[ops[id].store].outputFile

C17_ExitLeavesSnapshot ==
    [][Len(exits') > Len(exits) =>
          LET x == exits'[Len(exits')] IN
          ~ops'[x.op].failed =>
              /\ file'[PathOf(x.op)].text = ops'[x.op].text
              /\ Parse(file'[PathOf(x.op)].text).ok]_vars

\* C18: with several instances registered, no instance's handler calls process.exit
\* while the shutdown save of another instance is still in flight: when the process
\* has exited, every instance's shutdown save has completed.
C18_AllSavedBeforeExit ==
    exits # <<>> =>
        \A i \in StoreIds :
            /\ ExitSaves(i) # {}
            /\ \A id \in ExitSaves(i) : ~InFlight(id)

\* Instance i, already shutting down, is told of one more event in this step.
HearsAgain(i) == isShuttingDown[i] /\ Len(heard'[i]) = Len(heard[i]) + 1

\* The step starts no save for instance i, changes none of its saves, and makes no
\* call of process.exit for it.
NothingDoneFor(i) ==
    /\ \A id \in 1..Len(ops') :
          ops'[id].store = i => id \in OpIds /\ ops'[id] = ops[id]
    /\ \A n \in 1..Len(exits') : exits'[n].store = i => n \in 1..Len(exits)

\* C19 as stated: an event told to an instance that is already shutting down
\* triggers no save, no call of process.exit and no log entry, whatever its kind.
C19_LaterEventsNoOp ==
    [][\A i \in StoreIds : HearsAgain(i) => NothingDoneFor(i) /\ hlog'[i] = hlog[i]]_vars

\* C19, amended: such an event triggers no save and no call of process.exit; a
\* signal leaves no log entry, an uncaught exception or unhandled rejection leaves
\* exactly one, the error entry its listener writes before it calls handleExit.
C19_LaterEventsOnlyLogged ==
    [][\A i \in StoreIds :
          HearsAgain(i) =>
              LET e == heard'[i][Len(heard'[i])] IN
              /\ NothingDoneFor(i)
              /\ isShuttingDown'[i] /\ trigger'[i] = trigger[i]
              /\ hlog'[i] = IF e \in Signals THEN hlog[i]
                             ELSE Append(hlog[i], LogEntry("error", CrashMessage(e)))]_vars

\* C19's case: a signal began the shutdown, an uncaught exception followed while
\* the save was in flight, and it was logged.
C19_Witness ==
    \E i \in StoreIds :
        /\ Len(heard[i]) = 2 /\ heard[i][1] = "SIGTERM" /\ heard[i][2] = "uncaughtException"
        /\ hlog[i] = <<LogEntry("info", Description("SIGTERM")),
                       LogEntry("error", CrashMessage("uncaughtException"))>>
        /\ \E id \in ExitSaves(i) : InFlight(id)

\* C20: an instance is Active when constructed, is ShuttingDown from the first event
\* its listeners are called for, and never returns to Active, whether its shutdown
\* save succeeds or fails.
C20_OneWay ==
    [][\A i \in 1..Len(stores') :
          /\ i \notin StoreIds => ~isShuttingDown'[i]
          /\ i \in StoreIds /\ isShuttingDown[i] => isShuttingDown'[i]
          /\ isShuttingDown'[i] <=> heard'[i] # <<>>]_vars

\* C20's case: the shutdown save failed, process.exit (stubbed) returned control,
\* a further event came, and the instance is still shutting down.
C20_Witness ==
    \E i \in StoreIds :
        /\ alive /\ isShuttingDown[i] /\ Len(heard[i]) >= 2
        /\ \E id \in ExitSaves(i) : ops[id].failed /\ ops[id].pc = "done"
        /\ ExitCalls(i) # {}

\* C21: a save that succeeds called the snapshot provider exactly once, before its
\* write was pending, and leaves the checkpoint file holding exactly the
\* serialization of the value the provider returned then, with nothing else in it.
C21_SaveLeavesSnapshot ==
    [][\A id \in OpIds :
          Completes(id) =>
              /\ ops[id].calls = 1 /\ ops'[id].calls = 1
              /\ ops'[id].snap = ops[id].snap
              /\ Stringify(ops[id].snap).r = "text"
              /\ file'[PathOf(id)] = Present(Stringify(ops[id].snap).text, id)]_vars

\* A call of restore is made or goes on in this step.
RestoreSteps ==
    \E id \in 1..Len(ops') :
        ops'[id].kind = "restore" /\ (id \in OpIds => ops'[id] # ops[id])

\* The write of a save on path p makes a step: it opens the file, or it settles.
WriteSteps(p) ==
    \E id \in SaveOps :
        PathOf(id) = p /\ ops[id].pc \in {"open", "flush"} /\ ops'[id].pc # ops[id].pc

\* C22 as stated: the checkpoint file comes into being only when a save succeeds,
\* nothing deletes it, only the write of a save changes it, and restore leaves it
\* as it is.
C22_Lifecycle ==
    [][\A p \in DOMAIN file :
          /\ ~file[p].exists /\ file'[p].exists =>
                \E id \in OpIds : Completes(id) /\ PathOf(id) = p
          /\ file[p].exists => file'[p].exists
          /\ file'[p] # file[p] => WriteSteps(p)
          /\ RestoreSteps => file'[p] = file[p]]_vars

\* C22, amended: the checkpoint file comes into being, empty, when the write of a
\* save opens it, before that save has succeeded and whether or not it will;
\* nothing deletes it, only the write of a save changes it, and restore leaves it
\* as it is.
C22_LifecycleFromOpen ==
    [][\A p \in DOMAIN file :
          /\ ~file[p].exists /\ file'[p].exists =>
                /\ file'[p] = Present(<<>>, 0)
                /\ \E id \in SaveOps :
                      PathOf(id) = p /\ ops[id].pc = "open" /\ ops'[id].pc = "flush"
          /\ file[p].exists => file'[p].exists
          /\ file'[p] # file[p] => WriteSteps(p)
          /\ RestoreSteps => file'[p] = file[p]]_vars

\* C22's case: restore found no file; the only save then failed after its write
\* had opened the file; the file is there, empty, and no save has succeeded.
C22_Witness ==
    /\ \E id \in RestoreOps : ops[id].pc = "done" /\ ops[id].stat = "ENOENT"
    /\ SaveOps # {}
    /\ \A id \in SaveOps : ops[id].pc = "done" /\ WriteFailed(ops[id])
    /\ \A p \in DOMAIN file : file[p] = Present(<<>>, 0)

\* What the listener of event e logs up to handleExit's call of saveProgress.
Preamble(e) ==
    IF e \in Signals THEN <<LogEntry("info", Description(e))>>
    ELSE <<LogEntry("error", CrashMessage(e)), LogEntry("info", Description(e))>>

\* C23: whatever event made an instance enter ShuttingDown, its steps come in one
\* order: the cause is logged (after the error entry, when the event is a crash),
\* then saveProgress is called, once, which logs, calls the provider once and starts
\* the write; process.exit is called afterwards, when that save is done, with
\* status 1 on the crash path and 0 otherwise.
C23_ShutdownOrder ==
    \A i \in StoreIds :
        trigger[i] # "" =>
            /\ Len(hlog[i]) >= Len(Preamble(trigger[i]))
            /\ SubSeq(hlog[i], 1, Len(Preamble(trigger[i]))) = Preamble(trigger[i])
            /\ Cardinality(ExitSaves(i)) = 1
            /\ \A id \in ExitSaves(i) :
                  /\ ops[id].at = Len(Preamble(trigger[i]))
                  /\ ops[id].calls = 1
                  /\ Len(ops[id].log) >= 1
                  /\ ops[id].log[1] = LogEntry("info", "Saving progress")
                  /\ ops[id].code = (IF trigger[i] \in CrashEvents THEN 1 ELSE 0)
            /\ \A n \in ExitCalls(i) :
                  /\ exits[n].op \in ExitSaves(i)
                  /\ ops[exits[n].op].pc = "done"
                  /\ exits[n].code = ops[exits[n].op].code

\* C23's case: an unhandled rejection began the shutdown; the error entry, the
\* cause, one save, and exit with status 1.
C23_Witness ==
    \E i \in StoreIds :
        /\ trigger[i] = "unhandledRejection"
        /\ hlog[i] = Preamble("unhandledRejection")
        /\ \E n \in ExitCalls(i) :
              /\ exits[n].code = 1
              /\ ~ops[exits[n].op].failed /\ ops[exits[n].op].at = 2
====
